---- MODULE Spec2Model ----
(***************************************************************************)
(* Integer-partition enumeration engine of the repository                  *)
(* (main_project/code/partitions/00_create_partitions_code.py and the      *)
(* sibling generators partitions_file.py / partions_file2.py).             *)
(*                                                                         *)
(* The source fixes the array capacity and the target integer to 80; the   *)
(* model keeps the algorithm and scales the capacity (Cap) and the commit  *)
(* batch (BatchSize) down, with the target integer N ranging over 0..Cap.  *)
(* Arrays are 0-based functions, as the Python lists are.                  *)
(*                                                                         *)
(* The module also covers the sampling script 02_random_sampling.py, which *)
(* reads the generator's database, and the bootstrap manager of            *)
(* main_project/code/bootstrap/04_creates_a_bootstrap.py, which works on a *)
(* database of its own.                                                    *)
(***************************************************************************)
EXTENDS Integers, Sequences, FiniteSets, TLC

\* capacity of the partition array (80 in the source)
Cap == 10
\* records between two periodic commits (100000 in the source)
BatchSize == 3
\* number of invocations of the generator script that are explored
MaxRuns == 2
\* largest N explored when the script is invoked more than once
RerunN == 5
\* largest N explored together with the sampling script
SampleN == 4
\* LIMIT of the sampling query (100000 in the source)
SampleSize == 3
\* number of invocations of the sampling script that are explored
MaxSamples == 2
\* portfolio tables carry the dates 1 .. MaxDate (YYYYMMDD in the source)
MaxDate == 3
\* number of bootstrap processing runs that are explored
MaxJobs == 2

VARIABLES
    N,                \* the integer being partitioned (80 in the source)
    IP,               \* the partition array, [0..Cap-1 -> Nat]
    pc,               \* "Idle", "Running", "Completed", "Failed", "Cancelled"
    partition_count,  \* the generator's emission counter
    transitions,      \* number of loop bodies executed in the current run
    log,              \* arrays emitted by the current run, in order
    rows,             \* records inserted by the current run, in order
    table,            \* committed rows of table partitions (the database file)
    pending,          \* rows inserted in the open transaction, not yet committed
    run,              \* number of invocations started so far
    history,          \* logs and outcomes of the earlier invocations
    conn,             \* "none", "open" (connected, close() not called), "closed"
    error,            \* kind of the exception that ended the run, or "none"
    sampled,          \* table sampled_partitions and outcome of the last sampling
    samples,          \* number of invocations of the sampling script
    all_tables,       \* tables of the portfolio database: name -> run that wrote it
    date_range,       \* <<start_date, end_date>> of the bootstrap run, 0 for None
    bstatus,          \* "Idle", "Processing", "Done", "Interrupted"
    queue,            \* portfolio tables the bootstrap run has still to process
    all_results,      \* portfolio tables the bootstrap run has processed
    jobs              \* number of bootstrap processing runs started so far

\* state of the bootstrap manager of 04_creates_a_bootstrap.py
bootVars == <<all_tables, date_range, bstatus, queue, all_results, jobs>>

\* state of the partition generator and of the sampling script
genVars == <<N, IP, pc, partition_count, transitions, log, rows, table, pending,
             run, history, conn, error, sampled, samples>>

vars == <<N, IP, pc, partition_count, transitions, log, rows, table, pending,
          run, history, conn, error, sampled, samples,
          all_tables, date_range, bstatus, queue, all_results, jobs>>

Idx == 0 .. (Cap - 1)

----------------------------------------------------------------------------
(* Pure helpers *)

RECURSIVE SumTo_Short(_, _)
\* variant of SumTo: the slice stops one cell early, sum(IP[:k-1])
SumTo_Short(ip, k) == IF k <= 1 THEN 0 ELSE ip[k - 2] + SumTo_Short(ip, k - 1)

RECURSIVE SumTo(_, _)
\* sum(IP[:k])
SumTo(ip, k) == IF k <= 0 THEN 0 ELSE ip[k - 1] + SumTo(ip, k - 1)

RECURSIVE NonZeroFrom(_, _)
\* [val for val in IP if val > 0], scanning from cell i
NonZeroFrom(ip, i) ==
    IF i >= Cap THEN <<>>
    ELSE (IF ip[i] > 0 THEN <<ip[i]>> ELSE <<>>) \o NonZeroFrom(ip, i + 1)

non_zero_parts(ip) == NonZeroFrom(ip, 0)

RECURSIVE MaxFrom(_, _)
\* the largest of s[i], ..., s[Len(s)]
MaxFrom(s, i) ==
    IF i >= Len(s) THEN s[i]
    ELSE LET m == MaxFrom(s, i + 1) IN IF s[i] >= m THEN s[i] ELSE m

\* max(non_zero_parts) on a non-empty list
MaxOf(s) == MaxFrom(s, 1)

RECURSIVE MinFrom(_, _)
\* the smallest of s[i], ..., s[Len(s)]
MinFrom(s, i) ==
    IF i >= Len(s) THEN s[i]
    ELSE LET m == MinFrom(s, i + 1) IN IF s[i] <= m THEN s[i] ELSE m

\* min(non_zero_parts) on a non-empty list
MinOf(s) == MinFrom(s, 1)

DigitChar == <<"0", "1", "2", "3", "4", "5", "6", "7", "8", "9">>

RECURSIVE Str(_)
\* str(val) for a non-negative integer: its decimal digits
Str(v) ==
    IF v < 10 THEN <<DigitChar[v + 1]>>
    ELSE Str(v \div 10) \o <<DigitChar[(v % 10) + 1]>>

RECURSIVE JoinFrom(_, _)
\* the items parts[i], ... as strings, with one space between neighbours
JoinFrom(parts, i) ==
    IF i > Len(parts) THEN <<>>
    ELSE IF i = Len(parts) THEN Str(parts[i])
    ELSE Str(parts[i]) \o <<" ">> \o JoinFrom(parts, i + 1)

RECURSIVE Join_NoSpace(_)
\* variant of Join: the items are joined without a separator
Join_NoSpace(parts) ==
    IF parts = <<>> THEN <<>>
    ELSE Str(Head(parts)) \o Join_NoSpace(Tail(parts))

\* " ".join(str(val) for val in parts)
Join(parts) == JoinFrom(parts, 1)

\* IP = [N] + [0] * 79
InitialIP(n) == [i \in Idx |-> IF i = 0 THEN n ELSE 0]

----------------------------------------------------------------------------
(* PartitionSequencer: the transition of the main generation loop *)

RECURSIVE ScanJ_Two(_, _)
\* variant of ScanJ: the scan stops at the first part <= 2
ScanJ_Two(ip, j) == IF j < Cap /\ ip[j] > 2 THEN ScanJ_Two(ip, j + 1) ELSE j

RECURSIVE ScanJ(_, _)
\* J = 0; while J < 80 and IP[J] > 1: J += 1
ScanJ(ip, j) == IF j < Cap /\ ip[j] > 1 THEN ScanJ(ip, j + 1) ELSE j

\* variant of FindJ: stops after the leftmost part > 1
FindJ_First(ip) == IF ip[0] > 1 THEN 1 ELSE 0

FindJ(ip) == ScanJ(ip, 0)

\* variant of Terminal: breaks when J <= 1
Terminal_Early(ip) == FindJ(ip) <= 1

\* if J == 0: break
Terminal(ip) == FindJ(ip) = 0

\* variant of NextIP: the freed amount is redistributed as parts of size 1
NextIP_Ones(ip, n) ==
    LET part_to_modify == FindJ(ip) - 1
        remaining      == n - SumTo(ip, part_to_modify)
        new_value      == ip[part_to_modify] - 1
    IN  [i \in Idx |->
            IF i < part_to_modify THEN ip[i]
            ELSE IF i = part_to_modify THEN new_value
            ELSE IF i <= part_to_modify + (remaining - new_value) THEN 1
            ELSE 0]

\* variant of NextIP: the remainder is never written
NextIP_DropRemainder(ip, n) ==
    LET part_to_modify == FindJ(ip) - 1
        remaining      == n - SumTo(ip, part_to_modify)
        new_value      == ip[part_to_modify] - 1
        count          == remaining \div new_value
    IN  [i \in Idx |->
            IF i < part_to_modify THEN ip[i]
            ELSE IF i < part_to_modify + count THEN new_value
            ELSE 0]

\* variant of NextIP: the modified part is not decremented
NextIP_NoDecrement(ip, n) ==
    LET part_to_modify == FindJ(ip) - 1
        remaining      == n - SumTo(ip, part_to_modify)
        new_value      == ip[part_to_modify]
        count          == remaining \div new_value
        remainder      == remaining % new_value
    IN  [i \in Idx |->
            IF i < part_to_modify THEN ip[i]
            ELSE IF i < part_to_modify + count THEN new_value
            ELSE IF i = part_to_modify + count THEN remainder
            ELSE 0]

\* variant of NextIP: the cells from next_position on are not cleared
NextIP_NoZero(ip, n) ==
    LET part_to_modify == FindJ(ip) - 1
        remaining      == n - SumTo(ip, part_to_modify)
        new_value      == ip[part_to_modify] - 1
        count          == remaining \div new_value
        remainder      == remaining % new_value
    IN  [i \in Idx |->
            IF i = part_to_modify + count THEN remainder
            ELSE IF i >= part_to_modify /\ i < part_to_modify + count
                 THEN new_value
            ELSE ip[i]]

\* the loop body between the break test and the write of the record
NextIP(ip, n) ==
    LET part_to_modify == FindJ(ip) - 1
        sum_before     == SumTo(ip, part_to_modify)
        remaining      == n - sum_before
        current_value  == ip[part_to_modify]
        new_value      == current_value - 1
        count          == remaining \div new_value
        remainder      == remaining % new_value
        next_position  == part_to_modify + count
                            + (IF remainder > 0 THEN 1 ELSE 0)
    IN  [i \in Idx |->
            IF i >= next_position THEN 0
            ELSE IF i = part_to_modify + count /\ part_to_modify + count < Cap
                 THEN remainder
            ELSE IF i >= part_to_modify /\ i < part_to_modify + count /\ i < Cap
                 THEN new_value
            ELSE ip[i]]

----------------------------------------------------------------------------
(* PersistentSink: table partitions of the SQLite database *)

\* id INTEGER PRIMARY KEY AUTOINCREMENT: one more than the largest id in use
LastId(rs) == IF rs = <<>> THEN 0 ELSE rs[Len(rs)].id

NextId(committed, open) == LastId(committed \o open) + 1

\* variant of Record: largest_part is taken from the end of the list
Record_Smallest(id, ip) ==
    [id             |-> id,
     partition_text |-> Join(non_zero_parts(ip)),
     part_count     |-> Len(non_zero_parts(ip)),
     largest_part   |-> non_zero_parts(ip)[Len(non_zero_parts(ip))]]

\* the tuple bound to the INSERT statement, with the id the engine assigns
Record(id, ip) ==
    [id             |-> id,
     partition_text |-> Join(non_zero_parts(ip)),
     part_count     |-> Len(non_zero_parts(ip)),
     largest_part   |-> MaxOf(non_zero_parts(ip))]

\* write_partition_data of partions_file2.py: the row it inserts for the
\* array ip of the number n (the column partition_array, str(IP), is left
\* out)
write_partition_data(n, ip, is_primary) ==
    LET parts == non_zero_parts(ip)
    IN  [number               |-> n,
         partition_text       |-> Join(parts),
         part_count           |-> Len(parts),
         largest_part         |-> IF parts # <<>> THEN MaxOf(parts) ELSE 0,
         smallest_part        |-> IF parts # <<>> THEN MinOf(parts) ELSE 0,
         is_primary_partition |-> is_primary]

\* max() of an empty list raises ValueError before the INSERT is executed
RecordFails(ip) == non_zero_parts(ip) = <<>>

----------------------------------------------------------------------------
(* EnumerationDriver *)

Ended == {"Completed", "Failed", "Cancelled"}

\* sampled: status of the last sampling run, rows of table
\* sampled_partitions, the data frame the run returned, the number of
\* committed rows of table partitions its query read, and the number of
\* times table sampled_partitions has been written
NoSample == [status |-> "none", rows |-> <<>>, returned |-> <<>>,
             population |-> 0, writes |-> 0]

\* the portfolio database before any bootstrap run is looked at
BootIdle ==
    /\ all_tables = <<>>
    /\ date_range = <<0, 0>>
    /\ bstatus = "Idle"
    /\ queue = <<>>
    /\ all_results = <<>>
    /\ jobs = 0

\* the partition database before the generator is invoked
GenIdle ==
    /\ IP = [i \in Idx |-> 0]
    /\ pc = "Idle"
    /\ partition_count = 0
    /\ transitions = 0
    /\ log = <<>>
    /\ rows = <<>>
    /\ table = <<>>
    /\ pending = <<>>
    /\ run = 0
    /\ history = <<>>
    /\ conn = "none"
    /\ error = "none"
    /\ sampled = NoSample
    /\ samples = 0

Init ==
    /\ N \in -1 .. Cap
    /\ GenIdle
    /\ BootIdle

\* one invocation of the script up to the write of the initial partition:
\* connect, CREATE TABLE IF NOT EXISTS, array ip0 and the counters
StartWith(ip0) ==
    /\ pc \in {"Idle"} \cup Ended
    /\ run < MaxRuns
    /\ run' = run + 1
    /\ history' = IF pc = "Idle" THEN history
                  ELSE Append(history, [log |-> log, rows |-> rows, status |-> pc])
    /\ conn' = "open"
    /\ error' = "none"
    /\ IP' = ip0
    /\ pc' = "Running"
    /\ partition_count' = 0
    /\ transitions' = 0
    /\ log' = <<>>
    /\ rows' = <<>>
    /\ pending' = <<>>
    /\ UNCHANGED <<N, table, sampled, samples>>
    /\ UNCHANGED bootVars

\* variant of Start: the array of the previous invocation is reused
Start_Stale == StartWith(IF run = 0 THEN InitialIP(N) ELSE IP)

Start == StartWith(InitialIP(N))

\* "Write initial partition": the first record is built and inserted
WriteInitial ==
    /\ pc = "Running"
    /\ partition_count = 0
    /\ IF RecordFails(IP)
       THEN /\ pc' = "Failed"
            /\ error' = "ValueError"
            /\ UNCHANGED <<partition_count, log, rows, pending>>
       ELSE /\ partition_count' = 1
            /\ log' = <<IP>>
            /\ rows' = <<Record(NextId(table, <<>>), IP)>>
            /\ pending' = rows'
            /\ UNCHANGED <<pc, error>>
    /\ UNCHANGED <<N, IP, transitions, table, run, history, conn, sampled,
                   samples>>
    /\ UNCHANGED bootVars

\* one pass of the body of "while True" that does not break, taken while pc
\* is one of the given positions
TransitionFrom(positions) ==
    /\ pc \in positions
    /\ partition_count >= 1
    /\ ~Terminal(IP)
    /\ IP' = NextIP(IP, N)
    /\ log' = Append(log, IP')
    /\ rows' = Append(rows, Record(NextId(table, pending), IP'))
    /\ partition_count' = partition_count + 1
    /\ transitions' = transitions + 1
    /\ \E elapsed \in BOOLEAN :
         IF elapsed /\ partition_count' % BatchSize = 0
         THEN /\ table' = table \o Append(pending, rows'[Len(rows')])
              /\ pending' = <<>>
         ELSE /\ table' = table
              /\ pending' = Append(pending, rows'[Len(rows')])
    /\ UNCHANGED <<N, pc, run, history, conn, error, sampled, samples>>
    /\ UNCHANGED bootVars

\* variant of Transition: the loop also continues after an interruption
Transition_Late == TransitionFrom({"Running", "Cancelled"})

Transition == TransitionFrom({"Running"})

\* the pass that breaks, followed by conn.commit() when finalCommit holds,
\* and conn.close()
TerminateWith(finalCommit) ==
    /\ pc = "Running"
    /\ partition_count >= 1
    /\ Terminal(IP)
    /\ pc' = "Completed"
    /\ table' = IF finalCommit THEN table \o pending ELSE table
    /\ pending' = <<>>
    /\ conn' = "closed"
    /\ UNCHANGED <<N, IP, partition_count, transitions, log, rows, run, history,
                   error, sampled, samples>>
    /\ UNCHANGED bootVars

\* variant of Terminate: the connection is closed without the final commit
Terminate_NoCommit == TerminateWith(FALSE)

Terminate == TerminateWith(TRUE)

\* the process leaves the function through an exception of the given kind:
\* nothing catches it, so neither conn.commit() nor conn.close() is reached
\* and the open transaction is rolled back; keepBuffered tells whether the
\* buffered rows reach the table all the same
AbortWith(status, kind, keepBuffered) ==
    /\ pc = "Running"
    /\ pc' = status
    /\ error' = kind
    /\ table' = IF keepBuffered THEN table \o pending ELSE table
    /\ pending' = <<>>
    /\ UNCHANGED <<N, IP, partition_count, transitions, log, rows, run, history,
                   conn, sampled, samples>>
    /\ UNCHANGED bootVars

\* the process is interrupted between two transitions
Cancel == AbortWith("Cancelled", "KeyboardInterrupt", FALSE)

\* variant of IOFailure: the buffered rows are flushed on the way out
IOFailure_Flush == AbortWith("Failed", "IOFailure", TRUE)

\* cursor.execute or conn.commit raises
IOFailure == AbortWith("Failed", "IOFailure", FALSE)

----------------------------------------------------------------------------
(* Sampler: random_sample_sqlite of 02_random_sampling.py *)

\* variant of RandomOrders: a row may be drawn more than once
RandomOrders_Replace(rs, m) == [1 .. m -> 1 .. Len(rs)]

\* the orders in which m distinct rows of rs can come out of ORDER BY RANDOM()
RandomOrders(rs, m) ==
    {f \in [1 .. m -> 1 .. Len(rs)] :
        \A i, j \in 1 .. m : i # j => f[i] # f[j]}

\* SELECT * FROM partitions ORDER BY RANDOM() LIMIT limit: the rows at the
\* positions f of the committed table
Selected(rs, f) == [i \in 1 .. Len(f) |-> rs[f[i]]]

\* LIMIT never yields more rows than the table holds
LimitRows(rs, limit) == IF Len(rs) < limit THEN Len(rs) ELSE limit

\* variant of StoreSample: to_sql with if_exists = 'append'
StoreSample_Append(old, new) == old \o new

\* sampled_df.to_sql('sampled_partitions', conn, if_exists='replace')
StoreSample(old, new) == new

\* one invocation of the sampling script; the result goes to the table
\* sampled_partitions when toPartitions is FALSE
SampleInto(toPartitions) ==
    /\ samples < MaxSamples
    /\ samples' = samples + 1
    /\ IF run = 0
       THEN \* no table partitions yet: the query raises
            /\ sampled' = [sampled EXCEPT !.status = "error"]
            /\ table' = table
       ELSE IF pc = "Running" /\ pending # <<>>
       THEN \* the generator's open transaction holds the write lock of the
            \* database file: to_sql raises "database is locked"
            /\ sampled' = [sampled EXCEPT !.status = "error"]
            /\ table' = table
       ELSE \E f \in RandomOrders(table, LimitRows(table, SampleSize)) :
            /\ sampled' = [status     |-> "ok",
                            rows       |-> StoreSample(sampled.rows,
                                                       Selected(table, f)),
                            returned   |-> Selected(table, f),
                            population |-> Len(table),
                            writes     |-> sampled.writes + 1]
            /\ table' = IF toPartitions THEN Selected(table, f) ELSE table
    /\ UNCHANGED <<N, IP, pc, partition_count, transitions, log, rows, pending,
                   run, history, conn, error>>
    /\ UNCHANGED bootVars

\* variant of Sample: the sample is saved over table partitions
Sample_Overwrite == SampleInto(TRUE)

Sample == SampleInto(FALSE)

----------------------------------------------------------------------------
(* Bootstrap manager: PortfolioBootstrap and SmartBootstrapManager of       *)
(* 04_creates_a_bootstrap.py.  A table name is the record of its prefix,    *)
(* the date component that follows the first underscore (0 when it is not   *)
(* a date) and the number of trailing "_bootstrap" suffixes.  A date of 0   *)
(* passed as start_date or end_date stands for None.                        *)

\* the table portfolio_<d>
PortfolioName(d) == [prefix |-> "portfolio", date |-> d, boot |-> 0]

\* a table of the database that is not a portfolio table
OtherName == [prefix |-> "summary", date |-> 0, boot |-> 0]

\* f"{original_table_name}_{suffix}" with the default suffix
BootstrapName(t) == [t EXCEPT !.boot = t.boot + 1]

\* table_name.replace('_bootstrap', '')
OriginalName(t) == [t EXCEPT !.boot = 0]

\* SELECT name FROM sqlite_master WHERE type='table'
list_all_tables == DOMAIN all_tables

detect_existing_bootstrap_tables ==
    {OriginalName(t) : t \in {u \in list_all_tables : u.boot > 0}}

\* table.startswith('portfolio_') and not table.endswith('_bootstrap')
IsPortfolioTable(t) == t.prefix = "portfolio" /\ t.boot = 0

\* the date filter: it is skipped when neither bound is given; a name whose
\* date component does not parse is dropped
InRange(t, start_date, end_date) ==
    IF start_date = 0 /\ end_date = 0 THEN TRUE
    ELSE /\ t.date # 0
         /\ (start_date = 0 \/ t.date >= start_date)
         /\ (end_date = 0 \/ t.date <= end_date)

\* the tables list_portfolio_tables returns, as a set
list_portfolio_tables(start_date, end_date, exclude_existing) ==
    {t \in list_all_tables :
        /\ IsPortfolioTable(t)
        /\ InRange(t, start_date, end_date)
        /\ exclude_existing => t \notin detect_existing_bootstrap_tables}

\* position of a name in sorted(): digits sort before letters
NameKey(t) == IF t.date = 0 THEN MaxDate + 1 ELSE t.date

RECURSIVE SortedNames(_)
\* sorted(portfolio_tables)
SortedNames(S) ==
    IF S = {} THEN <<>>
    ELSE LET m == CHOOSE t \in S : \A u \in S : NameKey(t) <= NameKey(u)
         IN  <<m>> \o SortedNames(S \ {m})

\* the rows of get_processing_status
StatusRows(start_date, end_date) ==
    {t \in list_all_tables :
        IsPortfolioTable(t) /\ InRange(t, start_date, end_date)}

\* has_bootstrap = f"{table_name}_bootstrap" in all_tables
has_bootstrap(t) == BootstrapName(t) \in list_all_tables

\* bootstrap_data.to_sql(table_name, conn, if_exists='replace'): the table
\* is written by the current run
SaveBootstrap(tables, name, writer) ==
    [t \in DOMAIN tables \cup {name} |->
        IF t = name THEN writer ELSE tables[t]]

\* process_missing_tables up to the loop of create_bootstrap_for_all_tables,
\* which is called with the given overwrite flag; the status frame of an
\* empty selection has no column has_bootstrap, and the lookup raises
ProcessMissingWith(overwrite) ==
    /\ bstatus \in {"Idle", "Done", "Failed", "Interrupted"}
    /\ jobs < MaxJobs
    /\ jobs' = jobs + 1
    /\ all_results' = <<>>
    /\ \E start_date, end_date \in 0 .. MaxDate :
         LET status_df      == StatusRows(start_date, end_date)
             missing_tables == {t \in status_df : ~has_bootstrap(t)}
             portfolio_tables ==
                 list_portfolio_tables(start_date, end_date, ~overwrite)
         IN  /\ date_range' = <<start_date, end_date>>
             /\ IF status_df = {}
                THEN bstatus' = "Failed" /\ queue' = <<>>
                ELSE IF missing_tables = {} \/ portfolio_tables = {}
                THEN bstatus' = "Done" /\ queue' = <<>>
                ELSE /\ bstatus' = "Processing"
                     /\ queue' = SortedNames(portfolio_tables)
    /\ UNCHANGED all_tables
    /\ UNCHANGED genVars

\* variant of process_missing_tables: overwrite=True is passed on
process_missing_tables_Overwrite == ProcessMissingWith(TRUE)

process_missing_tables == ProcessMissingWith(FALSE)

\* one pass of the loop of create_bootstrap_for_all_tables: the bootstrap
\* sample of the next table is created and saved
BootstrapTable ==
    /\ bstatus = "Processing"
    /\ queue # <<>>
    /\ all_tables' = SaveBootstrap(all_tables, BootstrapName(Head(queue)), jobs)
    /\ all_results' = Append(all_results, Head(queue))
    /\ queue' = Tail(queue)
    /\ UNCHANGED <<date_range, bstatus, jobs>>
    /\ UNCHANGED genVars

\* the loop is exhausted and the dictionary of results is returned
FinishBootstrap ==
    /\ bstatus = "Processing"
    /\ queue = <<>>
    /\ bstatus' = "Done"
    /\ UNCHANGED <<all_tables, date_range, queue, all_results, jobs>>
    /\ UNCHANGED genVars

\* the process is interrupted, or a table fails to load, between two saves
InterruptBootstrap ==
    /\ bstatus = "Processing"
    /\ queue # <<>>
    /\ bstatus' = "Interrupted"
    /\ UNCHANGED <<all_tables, date_range, queue, all_results, jobs>>
    /\ UNCHANGED genVars

----------------------------------------------------------------------------
(* Specifications *)

\* the first invocation, against a database file that does not exist yet
FirstStart == run = 0 /\ Start

\* a single invocation that nothing interrupts
NextLoop == FirstStart \/ WriteInitial \/ Transition \/ Terminate

\* a single invocation of the script
NextRun ==
    FirstStart \/ WriteInitial \/ Transition \/ Terminate \/ Cancel \/ IOFailure

Spec == Init /\ [][NextRun]_vars

\* a single invocation; the interpreter keeps executing the loop
LiveSpec ==
    /\ Init
    /\ [][NextLoop]_vars
    /\ WF_vars(FirstStart)
    /\ WF_vars(WriteInitial)
    /\ WF_vars(Transition)
    /\ WF_vars(Terminate)

\* repeated invocations against the same database file
InitRerun == Init /\ N <= RerunN

Next ==
    Start \/ WriteInitial \/ Transition \/ Terminate \/ Cancel \/ IOFailure

RerunSpec == InitRerun /\ [][Next]_vars

\* one invocation of the generator and invocations of the sampling script,
\* which may run at any time
InitSample == Init /\ N <= SampleN

NextSample == NextRun \/ Sample

SampleSpec == InitSample /\ [][NextSample]_vars

\* the databases the bootstrap manager can find: some portfolio tables,
\* some of them with a bootstrap table written earlier, possibly a table
\* of another kind
InitBoot ==
    /\ N = 0
    /\ GenIdle
    /\ \E present \in SUBSET {PortfolioName(d) : d \in 0 .. MaxDate} :
         \E done \in SUBSET present :
            \E others \in SUBSET {OtherName} :
               all_tables =
                   [t \in present \cup {BootstrapName(u) : u \in done}
                             \cup others |-> 0]
    /\ date_range = <<0, 0>>
    /\ bstatus = "Idle"
    /\ queue = <<>>
    /\ all_results = <<>>
    /\ jobs = 0

\* bootstrap processing runs with overwrite=False, one after another
NextBoot ==
    process_missing_tables \/ BootstrapTable \/ FinishBootstrap
        \/ InterruptBootstrap

BootSpec == InitBoot /\ [][NextBoot]_vars

----------------------------------------------------------------------------
(* Reference notions the properties are stated against *)

Min(a, b) == IF a <= b THEN a ELSE b

RECURSIVE PartsLE(_, _)
\* the partitions of n into parts of size at most m, as sequences
PartsLE(n, m) ==
    IF n = 0 THEN {<<>>}
    ELSE UNION {{<<k>> \o s : s \in PartsLE(n - k, k)} : k \in 1 .. Min(n, m)}

AllPartitions(n) == PartsLE(n, n)

RECURSIVE CountLE(_, _)
\* the number of partitions of n into parts of size at most m
CountLE(n, m) ==
    IF n = 0 THEN 1
    ELSE IF m = 0 THEN 0
    ELSE CountLE(n, m - 1) + (IF n >= m THEN CountLE(n - m, m) ELSE 0)

\* the partition number p(n)
PartitionNumber(n) == CountLE(n, n)

\* a sequence of parts as a zero-padded array
Pad(s) == [i \in Idx |-> IF i < Len(s) THEN s[i + 1] ELSE 0]

\* a < b in lexicographic order on the zero-padded arrays
LexLess(a, b) ==
    \E i \in Idx : a[i] < b[i] /\ \A j \in 0 .. (i - 1) : a[j] = b[j]

\* n copies of 1
Ones(n) == [i \in Idx |-> IF i < n THEN 1 ELSE 0]

NonIncreasing(s) == \A i \in 1 .. (Len(s) - 1) : s[i] >= s[i + 1]

RECURSIVE SumFrom(_, _)
SumFrom(s, i) == IF i > Len(s) THEN 0 ELSE s[i] + SumFrom(s, i + 1)

SumSeq(s) == SumFrom(s, 1)

IsPrefixOf(a, b) == Len(a) <= Len(b) /\ SubSeq(b, 1, Len(a)) = a

\* the parts of the arrays emitted by the current run, in order
EmittedParts == [i \in 1 .. Len(log) |-> non_zero_parts(log[i])]

----------------------------------------------------------------------------
(* Properties *)

\* C1: for 1 <= N <= Cap a completed run has emitted every partition of N
\* exactly once, so the number of emitted records is p(N)
\* (p(1) = 1, p(5) = 7, p(10) = 42).
C1_EveryPartitionOnce ==
    (pc = "Completed" /\ N >= 1) =>
        /\ {EmittedParts[i] : i \in 1 .. Len(log)} = AllPartitions(N)
        /\ \A i, j \in 1 .. Len(log) : i # j => log[i] # log[j]
        /\ Len(rows) = PartitionNumber(N)
        /\ partition_count = PartitionNumber(N)
        /\ (N = 1 => Len(rows) = 1)
        /\ (N = 5 => Len(rows) = 7)
        /\ (N = 10 => Len(rows) = 42)

C1_Witness == pc = "Completed" /\ N = 10 /\ Len(log) = 42

\* C2: the array a transition produces is the immediate successor of the
\* array it started from: it is lexicographically smaller, and no partition
\* of N lies strictly between the two.
C2_ImmediateSuccessor ==
    Len(log) >= 2 =>
        LET P == log[Len(log) - 1]
            Q == log[Len(log)]
        IN  /\ non_zero_parts(P) \in AllPartitions(N)
            /\ LexLess(Q, P)
            /\ \A R \in AllPartitions(N) :
                   ~(LexLess(Q, Pad(R)) /\ LexLess(Pad(R), P))

C2_Witness ==
    /\ N = 5
    /\ Len(log) = 3
    /\ non_zero_parts(log[2]) = <<4, 1>>
    /\ non_zero_parts(log[3]) = <<3, 2>>

\* C3: at every step of the enumeration the nonzero cells of the array sum
\* to N and are non-increasing in array order.
C3_SumAndOrder ==
    log # <<>> =>
        /\ SumSeq(non_zero_parts(IP)) = N
        /\ NonIncreasing(non_zero_parts(IP))
        /\ log[Len(log)] = IP

C3_Witness ==
    /\ pc = "Running"
    /\ N = Cap
    /\ transitions >= 1
    /\ IP = Ones(Cap)

\* C4: every two consecutively emitted arrays are strictly decreasing in
\* lexicographic order on the zero-padded array.
C4_StrictlyDecreasing ==
    \A i \in 1 .. (Len(log) - 1) : LexLess(log[i + 1], log[i])

C4_Witness == pc = "Running" /\ Len(log) >= 4 /\ N = Cap

\* C5: the loop breaks exactly on the all-ones partition (or when N <= 1),
\* and for N >= 1 the last partition emitted by a completed run is N
\* copies of 1.
C5_TerminalAllOnes ==
    /\ pc = "Running" => (Terminal(IP) <=> (IP = Ones(N) \/ N <= 1))
    /\ (pc = "Completed" /\ N >= 1) =>
          /\ log[Len(log)] = Ones(N)
          /\ rows[Len(rows)].part_count = N
          /\ rows[Len(rows)].largest_part = 1

C5_Witness == pc = "Completed" /\ N = Cap /\ IP = Ones(Cap) /\ transitions > 0

\* C6: for N >= 1 an uninterrupted run terminates, after exactly p(N) - 1
\* transitions; for N = 1 the single record [1] is emitted and no
\* transition is performed.
C6_Terminates ==
    /\ [](pc = "Completed" => transitions = PartitionNumber(N) - 1)
    /\ []((pc = "Completed" /\ N = 1) =>
            (transitions = 0 /\ EmittedParts = << <<1>> >>))
    /\ ((N >= 1) ~> (pc = "Completed"))

C6_Witness == pc = "Completed" /\ N = 5 /\ transitions = 6

\* C7: for N = 5 the emitted sequence is [5], [4,1], [3,2], [3,1,1],
\* [2,2,1], [2,1,1,1], [1,1,1,1,1], 7 records in that order.
C7_OrderForFive ==
    (pc = "Completed" /\ N = 5) =>
        /\ EmittedParts = << <<5>>, <<4, 1>>, <<3, 2>>, <<3, 1, 1>>,
                             <<2, 2, 1>>, <<2, 1, 1, 1>>, <<1, 1, 1, 1, 1>> >>
        /\ Len(rows) = 7
        /\ rows[3].partition_text = <<"3", " ", "2">>

C7_Witness == pc = "Completed" /\ N = 5 /\ Len(rows) = 7 /\ table = rows

\* C8: for N = 0 the run yields exactly one record, the empty partition
\* with part_count 0, performs no transition and does not fail while the
\* record is built.
C8_EmptyPartition ==
    N = 0 =>
        /\ error # "ValueError"
        /\ pc = "Completed" =>
              /\ Len(rows) = 1
              /\ rows[1].part_count = 0
              /\ transitions = 0

\* C9: two runs for the same N emit the same ordered sequence, whatever the
\* timing of progress reports and commits and whatever an earlier run did:
\* the emissions of any two runs agree position by position, and two
\* completed runs emitted identical sequences.
C9_Deterministic ==
    LET logs == [k \in 1 .. (Len(history) + 1) |->
                    IF k <= Len(history) THEN history[k].log ELSE log]
        done == [k \in 1 .. (Len(history) + 1) |->
                    IF k <= Len(history) THEN history[k].status = "Completed"
                    ELSE pc = "Completed"]
    IN  \A a, b \in 1 .. (Len(history) + 1) :
            /\ IsPrefixOf(logs[a], logs[b]) \/ IsPrefixOf(logs[b], logs[a])
            /\ (done[a] /\ done[b]) => logs[a] = logs[b]

C9_Witness ==
    /\ run = 2
    /\ pc = "Completed"
    /\ N = RerunN
    /\ history[1].status = "Completed"
    /\ Len(history[1].log) >= 3
    /\ Len(table) > Len(rows)

\* C10: the id of every record a run writes is its 1-based position in the
\* emission order of that run, also when the table already holds the
\* records of an earlier run.
C10_RankIsEmissionOrder ==
    \A k \in 1 .. Len(rows) : rows[k].id = k

\* C11: in every reachable state the number of records appended but not yet
\* committed is at most the batch size.
C11_BoundedUncommitted == Len(pending) <= BatchSize

\* C12: when a run is Completed, all p(N) records it emitted are committed,
\* in emission order at the end of the table, and none is left uncommitted.
C12_FinalCommit ==
    pc = "Completed" =>
        /\ pending = <<>>
        /\ Len(rows) = PartitionNumber(N)
        /\ Len(table) >= Len(rows)
        /\ SubSeq(table, Len(table) - Len(rows) + 1, Len(table)) = rows

C12_Witness ==
    /\ pc = "Completed"
    /\ N = 5
    /\ Len(table) = 7
    /\ table[7].part_count = 5

\* C13: no run ends (Completed, Failed or Cancelled) with the connection
\* to the sink left unclosed.
C13_ClosedOnEveryExit == pc \in Ended => conn = "closed"

\* C14: when an append or a commit fails the run becomes Failed, the
\* committed records stay in the table unchanged and the records buffered
\* since the last commit are lost.
C14_FailureKeepsCommitted ==
    /\ [][(error # "IOFailure" /\ error' = "IOFailure") =>
            (pc' = "Failed" /\ table' = table /\ pending' = <<>>)]_vars
    /\ [](error = "IOFailure" =>
            (pc = "Failed" /\ pending = <<>> /\ IsPrefixOf(table, rows)))

C14_Witness ==
    /\ pc = "Failed"
    /\ error = "IOFailure"
    /\ Len(table) = BatchSize
    /\ Len(rows) > Len(table)

\* C15: a run goes Idle -> Running -> {Completed, Failed, Cancelled} and no
\* other way; once it has ended nothing more is emitted and its state does
\* not change.
C15_StateMachine ==
    [][/\ pc = "Idle" => pc' \in {"Idle", "Running"}
       /\ pc = "Running" => pc' \in {"Running"} \cup Ended
       /\ pc \in Ended =>
            /\ pc' = pc
            /\ log' = log
            /\ rows' = rows
            /\ IP' = IP
            /\ partition_count' = partition_count
            /\ table' = table]_vars

C15_Witness == pc = "Cancelled" /\ Len(log) >= 2 /\ N = Cap

\* C16: a run with N < 0 is rejected before anything else happens: it
\* never enters Running, no record is appended and nothing is committed.
C16_RejectsNegative ==
    N < 0 =>
        /\ pc \in {"Idle", "Failed"}
        /\ rows = <<>>
        /\ pending = <<>>
        /\ table = <<>>

\* C17: a cancelled run ends in Cancelled and never becomes Completed, the
\* records committed before the cancellation stay in the table, and the
\* next run starts again from the initial partition [N].
C17_CancelThenRestart ==
    /\ [][/\ (pc = "Running" /\ pc' = "Cancelled") => table' = table
          /\ pc = "Cancelled" => pc' \in {"Cancelled", "Running"}
          /\ (pc = "Cancelled" /\ pc' = "Running") =>
                (IP' = InitialIP(N) /\ log' = <<>> /\ table' = table)]_vars
    /\ []((run >= 2 /\ log # <<>>) =>
            (history[run - 1].status = "Cancelled" =>
                log[1] = InitialIP(N)))
    /\ [][IsPrefixOf(table, table')]_vars

C17_Witness ==
    /\ run = 2
    /\ N = RerunN
    /\ history[1].status = "Cancelled"
    /\ Len(history[1].log) >= 3
    /\ Len(table) = BatchSize
    /\ Len(log) = 1
    /\ log[1] = InitialIP(N)

RecordFields == {"id", "partition_text", "part_count", "largest_part"}

\* C18: every record readable from the table is a whole record of the run:
\* it has all its fields, they describe one emitted partition of N, and it
\* is one of the records the run appended, also after Cancelled or Failed.
C18_NoPartialRecord ==
    /\ IsPrefixOf(table, rows)
    /\ \A k \in 1 .. Len(table) :
          LET parts == non_zero_parts(log[k])
          IN  /\ DOMAIN table[k] = RecordFields
              /\ SumSeq(parts) = N
              /\ table[k].partition_text = Join(parts)
              /\ table[k].part_count = Len(parts)
              /\ table[k].largest_part = parts[1]

C18_Witness ==
    /\ pc \in {"Cancelled", "Failed"}
    /\ N = Cap
    /\ Len(table) = BatchSize
    /\ Len(rows) > BatchSize

\* C19: table partitions is append-only: no step of a generation run or of
\* a sampling run changes or removes a record that is already committed.
C19_AppendOnly == [][IsPrefixOf(table, table')]_vars

C19_Witness ==
    /\ sampled.status = "ok"
    /\ Len(sampled.rows) = SampleSize
    /\ pc = "Completed"
    /\ N = SampleN
    /\ Len(table) = PartitionNumber(SampleN)

\* C20: a sampling run never returns fewer than the requested number of
\* records.
C20_NoClampedSample ==
    sampled.status = "ok" => Len(sampled.rows) = SampleSize

\* the set of the elements of a sequence
Range(s) == {s[i] : i \in 1 .. Len(s)}

\* C21: sampling is deterministic: two sampling runs that read the same
\* committed population return the same records.
C21_SameSampleAgain ==
    [][(/\ samples' = samples + 1
        /\ sampled.status = "ok"
        /\ sampled'.status = "ok"
        /\ sampled'.population = sampled.population) =>
            Range(sampled'.returned) = Range(sampled.returned)]_vars

\* C22: sampling is without replacement: when the population holds at
\* least SampleSize records the run returns exactly SampleSize of them, the
\* returned records are pairwise distinct and each is a record of the
\* population; when the population holds exactly SampleSize records all of
\* them are returned, which for a completed run is one record for every
\* partition of N.
C22_WithoutReplacement ==
    sampled.status = "ok" =>
        LET r          == sampled.returned
            population == SubSeq(table, 1, sampled.population)
        IN  /\ sampled.population <= Len(table)
            /\ sampled.population >= SampleSize => Len(r) = SampleSize
            /\ \A i, j \in 1 .. Len(r) : i # j => r[i] # r[j]
            /\ Range(r) \subseteq Range(population)
            /\ sampled.population = SampleSize =>
                    Range(r) = Range(population)
            /\ (/\ pc = "Completed"
                /\ sampled.population = Len(table)
                /\ Len(table) = SampleSize) =>
                    /\ {r[i].partition_text : i \in 1 .. Len(r)} =
                           {Join(q) : q \in AllPartitions(N)}
                    /\ Len(r) = PartitionNumber(N)

C22_Witness ==
    /\ sampled.status = "ok"
    /\ pc = "Completed"
    /\ PartitionNumber(N) = SampleSize
    /\ sampled.population = SampleSize
    /\ Len(sampled.returned) = SampleSize

\* C23: a sampling run that follows an earlier one replaces the stored
\* sample: table sampled_partitions then holds exactly the records the
\* latest run selected, in the order it returned them.
C23_RerunReplaces ==
    [][(/\ samples' = samples + 1
        /\ sampled.status = "ok"
        /\ sampled'.status = "ok") =>
            sampled'.rows = sampled'.returned]_vars

C23_Witness ==
    /\ sampled.writes = 2
    /\ sampled.status = "ok"
    /\ pc = "Completed"
    /\ sampled.population > SampleSize
    /\ sampled.rows = sampled.returned
    /\ Len(sampled.rows) = SampleSize

\* C24: a sampling run that returns records of an enumeration of N >= 1
\* has drawn them behind the completion barrier: the generator run is
\* Completed and all p(N) records of the enumeration are committed.
C24_CompletionBarrier ==
    [][(/\ samples' = samples + 1
        /\ sampled'.status = "ok"
        /\ sampled'.returned # <<>>
        /\ N >= 1) =>
            (/\ pc = "Completed"
             /\ Len(table) = PartitionNumber(N))]_vars

\* the value of a decimal digit
DigitVal(ch) == (CHOOSE d \in 1 .. 10 : DigitChar[d] = ch) - 1

RECURSIVE ParseFrom(_, _, _, _)
\* the items of the text t from position i on, split at every single space
\* and read as decimal numbers; an empty item reads as 0
ParseFrom(t, i, cur, open) ==
    IF i > Len(t) THEN <<IF open THEN cur ELSE 0>>
    ELSE IF t[i] = " "
         THEN <<IF open THEN cur ELSE 0>> \o ParseFrom(t, i + 1, 0, FALSE)
    ELSE ParseFrom(t, i + 1, (cur * 10) + DigitVal(t[i]), TRUE)

ParseText(t) == IF t = <<>> THEN <<>> ELSE ParseFrom(t, 1, 0, FALSE)

\* the number of nonzero cells of an array
PartCount(ip) == Cardinality({i \in Idx : ip[i] # 0})

\* the first PartCount(ip) cells of an array, in array order
PartsOf(ip) == [i \in 1 .. PartCount(ip) |-> ip[i - 1]]

\* C27: every record describes the partition it was built from: its text
\* reads back as the nonzero parts in array order, part_count is their
\* number and largest_part is the first part; the row the advanced
\* generator builds from the same array has, in addition, smallest_part
\* equal to the last part.
C27_RecordDescribesPartition ==
    /\ Len(rows) = Len(log)
    /\ \A k \in 1 .. Len(rows) :
          LET parts == PartsOf(log[k])
              adv   == write_partition_data(N, log[k], k = 1)
          IN  /\ parts # <<>>
              /\ ParseText(rows[k].partition_text) = parts
              /\ rows[k].part_count = Len(parts)
              /\ rows[k].largest_part = parts[1]
              /\ adv.number = N
              /\ ParseText(adv.partition_text) = parts
              /\ adv.part_count = Len(parts)
              /\ adv.largest_part = parts[1]
              /\ adv.smallest_part = parts[Len(parts)]

C27_Witness ==
    /\ pc = "Completed"
    /\ N = Cap
    /\ Len(rows) = PartitionNumber(Cap)
    /\ rows[1].largest_part = Cap
    /\ rows[Len(rows)].part_count = Cap

\* C29: after the initial write and after every transition the array is in
\* canonical form: its nonzero cells are a contiguous prefix, every cell
\* behind it is 0, and the prefix alone sums to N, so that no value of an
\* earlier partition is left behind the last cell written.
C29_CanonicalForm ==
    \A k \in 1 .. Len(log) :
        LET ip == log[k]
        IN  /\ \A i \in Idx : ip[i] # 0 <=> i < PartCount(ip)
            /\ SumSeq(PartsOf(ip)) = N
            /\ (k = Len(log) /\ pc = "Running") => IP = ip

C29_Witness ==
    /\ N = Cap
    /\ Len(log) >= 2
    /\ PartCount(log[Len(log)]) < PartCount(log[Len(log) - 1])

\* C30: the capacity tests of the transition never decide anything: on
\* every array the transition is applied to, new_value >= 1 and
\* part_to_modify + count <= N, every write of new_value falls inside the
\* array, the write of the remainder is skipped only when the remainder is
\* 0, and the array produced equals the one the same assignments produce
\* on an array without a capacity limit.
C30_GuardsNeverDecide ==
    (pc = "Running" /\ partition_count >= 1 /\ ~Terminal(IP)) =>
        LET part_to_modify == FindJ(IP) - 1
            remaining      == N - SumTo(IP, part_to_modify)
            new_value      == IP[part_to_modify] - 1
            count          == remaining \div new_value
            remainder      == remaining % new_value
            next_position  == part_to_modify + count
                                + (IF remainder > 0 THEN 1 ELSE 0)
            guarded(i)     == IF i < Cap THEN NextIP(IP, N)[i] ELSE 0
            unguarded(i)   ==
                IF i >= next_position THEN 0
                ELSE IF i = part_to_modify + count THEN remainder
                ELSE IF i >= part_to_modify /\ i < part_to_modify + count
                     THEN new_value
                ELSE IF i < Cap THEN IP[i] ELSE 0
        IN  /\ new_value >= 1
            /\ part_to_modify + count <= N
            /\ \A i \in 0 .. (count - 1) : part_to_modify + i < Cap
            /\ part_to_modify + count >= Cap => remainder = 0
            /\ \A i \in 0 .. (2 * Cap) : guarded(i) = unguarded(i)

C30_Witness ==
    /\ pc = "Running"
    /\ N = Cap
    /\ IP = [i \in Idx |-> IF i = 0 THEN 2 ELSE IF i < Cap - 1 THEN 1 ELSE 0]

\* the portfolio tables of the date range that have no bootstrap table
PendingTables(tables, range) ==
    {t \in DOMAIN tables :
        /\ t.prefix = "portfolio"
        /\ t.boot = 0
        /\ (range # <<0, 0>>) =>
              /\ t.date # 0
              /\ (range[1] # 0 => t.date >= range[1])
              /\ (range[2] # 0 => t.date <= range[2])
        /\ [t EXCEPT !.boot = 1] \notin DOMAIN tables}

\* C28: with overwrite=False a bootstrap run takes up exactly the portfolio
\* tables of the date range that have no bootstrap table yet, none when
\* there is none; every table it creates is the bootstrap table of such a
\* table, and no table that exists, bootstrap tables included, is
\* rewritten or dropped.
C28_OnlyPendingProcessed ==
    [][/\ \A t \in DOMAIN all_tables :
             t \in DOMAIN all_tables' /\ all_tables'[t] = all_tables[t]
       /\ \A t \in (DOMAIN all_tables') \ (DOMAIN all_tables) :
             /\ t.boot = 1
             /\ [t EXCEPT !.boot = 0] \in PendingTables(all_tables, date_range)
       /\ (jobs' = jobs + 1) =>
             /\ Range(queue') = PendingTables(all_tables, date_range')
             /\ Len(queue') = Cardinality(Range(queue'))
             /\ all_results' = <<>>
             /\ (queue' = <<>>) => bstatus' # "Processing"]_vars

C28_Witness ==
    /\ jobs = 2
    /\ bstatus = "Done"
    /\ all_results # <<>>
    /\ \E t \in DOMAIN all_tables : t.boot = 1 /\ all_tables[t] = 0
    /\ \E t \in DOMAIN all_tables : t.boot = 1 /\ all_tables[t] = 1
    /\ \E t \in DOMAIN all_tables : t.boot = 1 /\ all_tables[t] = 2

====
